---- MODULE Spec2Model ----
(***************************************************************************)
(* Customer entry form (customerApp.py) and standalone database viewer     *)
(* (databaseView.py) over one SQLite file, customers.db.                   *)
(*                                                                         *)
(* Text is modelled as a sequence of one-character strings, so that        *)
(* str.strip() and the three regular expressions are computed character by *)
(* character.  SQL NULL / Python None is the value NULL.                   *)
(*                                                                         *)
(* Specifications:                                                         *)
(*   Spec          the entry form program: main, the form handlers         *)
(*   SpecStore     the database helpers called directly, and the viewer    *)
(*   SpecValidate  validate_fields applied to arbitrary arguments          *)
(***************************************************************************)
EXTENDS Integers, Sequences, FiniteSets, TLC

VARIABLES
    db,         \* customers.db: [file, table, rows, seq]
    clock,      \* CURRENT_TIMESTAMP of the database engine
    openConns,  \* sqlite3 connections opened and not closed
    pc,         \* entry form process: "stopped" | "running"
    form,       \* the six StringVars of CustomerApp
    tree,       \* CustomerApp.tree: the displayed rows, top to bottom
    dialog,     \* the last messagebox shown (either program)
    escaped,    \* an exception left the last handler
    last,       \* the last operation run and how it ended
    vstatus,    \* DBViewerApp.status_label text
    vcolumns,   \* DBViewerApp.tree["columns"]
    vtree,      \* DBViewerApp.tree: the displayed rows
    vargs,      \* arguments of a validate_fields call
    vret        \* what that call returned

vars == <<db, clock, openConns, pc, form, tree, dialog, escaped, last,
          vstatus, vcolumns, vtree, vargs, vret>>

----------------------------------------------------------------------------
(* Bounds of the model *)

MaxRows == 2

MaxClock == 1

MaxDirectRows == 1

MaxOpenConns == 2

----------------------------------------------------------------------------
(* Text *)

NULL == <<"NULL">>

Whitespace == {" ", "\t", "\n", "\r"}

Digits == {"0", "1", "2", "3", "4", "5", "6", "7", "8", "9"}

RECURSIVE lstrip(_)
lstrip(s) == IF s # <<>> /\ Head(s) \in Whitespace THEN lstrip(Tail(s)) ELSE s

RECURSIVE rstrip(_)
rstrip(s) ==
    IF s # <<>> /\ s[Len(s)] \in Whitespace
    THEN rstrip(SubSeq(s, 1, Len(s) - 1))
    ELSE s

strip(s) == rstrip(lstrip(s))

\* Python's "$": the end of the text, or just before one final newline.
BeforeDollar(s) ==
    {s} \cup (IF s # <<>> /\ s[Len(s)] = "\n" THEN {SubSeq(s, 1, Len(s) - 1)} ELSE {})

\* ^\d{4}-\d{2}-\d{2}$
DATE_RE(s) ==
    \E p \in BeforeDollar(s) :
        /\ Len(p) = 10
        /\ \A i \in {1, 2, 3, 4, 6, 7, 9, 10} : p[i] \in Digits
        /\ p[5] = "-"
        /\ p[8] = "-"

\* ^[^@\s]+@[^@\s]+\.[^@\s]+$
EMAIL_RE(s) ==
    \E p \in BeforeDollar(s) :
        \E i \in 2..Len(p) :
            /\ p[i] = "@"
            /\ \A k \in (1..Len(p)) \ {i} : p[k] \notin (Whitespace \cup {"@"})
            /\ \E j \in (i + 2)..(Len(p) - 1) : p[j] = "."

PhoneMinLen == 7

\* ^[0-9+()\-\s]{7,}$
PHONE_RE(s) ==
    /\ Len(s) >= PhoneMinLen
    /\ \A k \in 1..Len(s) : s[k] \in (Digits \cup {"+", "(", ")", "-"} \cup Whitespace)

----------------------------------------------------------------------------
(* Values used as inputs *)

sAnn == <<"A", "n", "n">>

sAnnPadded == <<" ", "A", "n", "n", " ">>

sBo == <<"B", "o">>

sBlank == <<" ">>

dGood == <<"2", "0", "0", "1", "-", "0", "9", "-", "3", "0">>

dPadded == <<" ", "2", "0", "0", "1", "-", "0", "9", "-", "3", "0", " ">>

dSlash == <<"0", "9", "/", "3", "0", "/", "2", "0", "0", "1">>

dShort == <<"2", "0", "0", "1", "-", "9", "-", "3", "0">>

dNewline == <<"2", "0", "0", "1", "-", "0", "9", "-", "3", "0", "\n">>

eGood == <<"a", "@", "b", ".", "c">>

ePadded == <<"a", "@", "b", ".", "c", " ">>

eNoDot == <<"b", "o", "b", "@", "n", "o", "d", "o", "t">>

eSpace == <<"a", " ", "b", "@", "c", ".", "d">>

eTwoAt == <<"a", "@", "b", "@", "c", ".", "d">>

eDotFirst == <<"a", "@", ".", "c">>

pGood == <<"5", "5", "5", "-", "1", "2", "3", "4">>

pPadded == <<" ", "(", "5", "5", "5", ")", " ", "1", "2", " ">>

pShort == <<"1", "2", "3", "4", "5">>

pAlpha == <<"5", "5", "5", "-", "1", "2", "x", "4">>

aWay == <<"1", " ", "W", "a", "y">>

aWayPadded == <<" ", "1", " ", "W", "a", "y", " ">>

Email == <<"E", "m", "a", "i", "l">>

Phone == <<"P", "h", "o", "n", "e">>

Mail == <<"M", "a", "i", "l">>

Fax == <<"F", "a", "x">>

MailPadded == <<" ", "M", "a", "i", "l", " ">>

emailLower == <<"e", "m", "a", "i", "l">>

Contacts == {Email, Phone, Mail}

----------------------------------------------------------------------------
(* Validation *)

MsgName == "Name is required."

MsgBirthday == "Birthday must be YYYY-MM-DD (e.g., 2001-09-30)."

MsgEmail == "Email format looks invalid."

MsgPhone == "Phone should contain digits and ()-+ only (min 7 chars)."

MsgContact == "Choose a preferred contact method."

\* validate_fields with the contact rule checked before the others.
validate_fields_contact_first(name, birthday, email, phone, preferred_contact) ==
    IF preferred_contact \notin Contacts THEN <<FALSE, MsgContact>>
    ELSE IF strip(name) = <<>> THEN <<FALSE, MsgName>>
    ELSE IF birthday # <<>> /\ ~DATE_RE(strip(birthday)) THEN <<FALSE, MsgBirthday>>
    ELSE IF email # <<>> /\ ~EMAIL_RE(strip(email)) THEN <<FALSE, MsgEmail>>
    ELSE IF phone # <<>> /\ ~PHONE_RE(strip(phone)) THEN <<FALSE, MsgPhone>>
    ELSE <<TRUE, "OK">>

validate_fields(name, birthday, email, phone, preferred_contact) ==
    IF strip(name) = <<>> THEN <<FALSE, MsgName>>
    ELSE IF birthday # <<>> /\ ~DATE_RE(strip(birthday)) THEN <<FALSE, MsgBirthday>>
    ELSE IF email # <<>> /\ ~EMAIL_RE(strip(email)) THEN <<FALSE, MsgEmail>>
    ELSE IF phone # <<>> /\ ~PHONE_RE(strip(phone)) THEN <<FALSE, MsgPhone>>
    ELSE IF preferred_contact \notin Contacts THEN <<FALSE, MsgContact>>
    ELSE <<TRUE, "OK">>

----------------------------------------------------------------------------
(* The database file and the helpers that open it *)

NoExc == "none"

EmptyDb == [file |-> "absent", table |-> FALSE, rows |-> {}, seq |-> 0]

IdsOf(rows) == {r.id : r \in rows}

MaxId(rows) == IF rows = {} THEN 0 ELSE CHOOSE m \in IdsOf(rows) : \A i \in IdsOf(rows) : i <= m

\* sqlite3.connect creates the file when it is missing.
connect(d) == [d EXCEPT !.file = "present"]

\* Connections this call leaves open: the "with" block commits or rolls back
\* and never closes; the connection object is closed only when the Python
\* runtime finalises it, at once (gc) or at some later time.
left_open(open, calls, gc) == IF gc THEN 0 ELSE open + calls

\* CREATE TABLE IF NOT EXISTS customers (...)
init_db(d, fault) ==
    IF fault THEN [db |-> d, exc |-> "OperationalError"]
    ELSE [db |-> [connect(d) EXCEPT !.table = TRUE], exc |-> NoExc]

\* An id that repeats the largest one in use.
next_id_stale(d) == IF d.seq > MaxId(d.rows) THEN d.seq ELSE MaxId(d.rows)

\* id INTEGER PRIMARY KEY AUTOINCREMENT: one more than the largest id ever used
next_id(d) == (IF d.seq > MaxId(d.rows) THEN d.seq ELSE MaxId(d.rows)) + 1

\* name TEXT NOT NULL; CHECK(preferred_contact in ('Email','Phone','Mail')):
\* a CHECK whose expression is NULL is not a violation.
constraint_ok(name, preferred_contact) ==
    /\ name # NULL
    /\ (preferred_contact = NULL \/ preferred_contact \in Contacts)

insert_customer(d, name, birthday, email, phone, address, preferred_contact, now, fault) ==
    IF fault THEN [db |-> d, exc |-> "OperationalError"]
    ELSE IF ~d.table THEN [db |-> connect(d), exc |-> "OperationalError"]
    ELSE IF ~constraint_ok(name, preferred_contact)
         THEN [db |-> d, exc |-> "IntegrityError"]
    ELSE LET row == [id |-> next_id(d), name |-> name, birthday |-> birthday,
                     email |-> email, phone |-> phone, address |-> address,
                     preferred_contact |-> preferred_contact, created_at |-> now]
         IN  [db |-> [d EXCEPT !.rows = @ \cup {row}, !.seq = row.id], exc |-> NoExc]

RECURSIVE OrderByIdAsc(_)
OrderByIdAsc(rows) ==
    IF rows = {} THEN <<>>
    ELSE LET m == CHOOSE r \in rows : \A q \in rows : r.id <= q.id
         IN  <<m>> \o OrderByIdAsc(rows \ {m})

RECURSIVE OrderByIdDesc(_)
OrderByIdDesc(rows) ==
    IF rows = {} THEN <<>>
    ELSE LET m == CHOOSE r \in rows : \A q \in rows : q.id <= r.id
         IN  <<m>> \o OrderByIdDesc(rows \ {m})

\* fetch_customers with ORDER BY id ASC.
fetch_customers_asc(d, fault) ==
    IF fault THEN [db |-> d, exc |-> "OperationalError", rows |-> <<>>]
    ELSE IF ~d.table THEN [db |-> connect(d), exc |-> "OperationalError", rows |-> <<>>]
    ELSE [db |-> d, exc |-> NoExc, rows |-> OrderByIdAsc(d.rows)]

\* SELECT id, name, ... FROM customers ORDER BY id DESC, as a list of dicts
fetch_customers(d, fault) ==
    IF fault THEN [db |-> d, exc |-> "OperationalError", rows |-> <<>>]
    ELSE IF ~d.table THEN [db |-> connect(d), exc |-> "OperationalError", rows |-> <<>>]
    ELSE [db |-> d, exc |-> NoExc, rows |-> OrderByIdDesc(d.rows)]

----------------------------------------------------------------------------
(* Status label texts of the viewer *)

StatusReady == "Status: Ready"

StatusNotFound == "Status: Error - Database file 'customers.db' not found."

StatusNoTables == "Status: Error - No customer tables found in the database."

StatusLoaded == "Status: Successfully loaded data from table 'customers'."

StatusSqliteError == "Status: SQLite Error"

----------------------------------------------------------------------------
(* The entry form: CustomerApp *)

NoDialog == <<>>

FormDefault ==
    [name |-> <<>>, birthday |-> <<>>, email |-> <<>>, phone |-> <<>>,
     address |-> <<>>, preferred_contact |-> Email]

MkForm(n, b, e, p, a, c) ==
    [name |-> n, birthday |-> b, email |-> e, phone |-> p, address |-> a,
     preferred_contact |-> c]

\* What a user can have typed when a button is pressed; the contact method
\* comes from the read-only combobox.
Forms ==
    { MkForm(sAnnPadded, dPadded, ePadded, pPadded, aWayPadded, Email),
      MkForm(sBo, <<>>, <<>>, <<>>, <<>>, Mail),
      MkForm(sAnn, dGood, <<>>, pGood, sBlank, Phone),
      MkForm(sBlank, dGood, eGood, pGood, aWay, Email),
      MkForm(sAnn, dSlash, eGood, pGood, aWay, Email),
      MkForm(sBo, <<>>, eNoDot, <<>>, aWay, Phone),
      MkForm(sBo, dGood, <<>>, pShort, <<>>, Mail),
      MkForm(<<>>, dShort, eTwoAt, pAlpha, <<>>, Mail) }

\* birthday or None
or_none(s) == IF s = <<>> THEN NULL ELSE s

columns ==
    <<"id", "name", "birthday", "email", "phone", "address",
      "preferred_contact", "created_at">>

\* values=(r["id"], r["name"], r.get("birthday",""), ...)
values(r) ==
    <<r.id, r.name, r.birthday, r.email, r.phone, r.address,
      r.preferred_contact, r.created_at>>

\* refresh_table without the deletion of the displayed rows.
refresh_table_append(t, d, fault) ==
    LET f == fetch_customers(d, fault)
    IN  IF f.exc # NoExc
        THEN [tree |-> t, exc |-> f.exc, db |-> f.db]
        ELSE [tree |-> t \o [i \in 1..Len(f.rows) |-> values(f.rows[i])],
              exc |-> NoExc, db |-> f.db]

\* Deletes every displayed row, then inserts one row per fetched customer.
\* A failing fetch_customers() is not caught here.
refresh_table(t, d, fault) ==
    LET f == fetch_customers(d, fault)
    IN  IF f.exc # NoExc
        THEN [tree |-> <<>>, exc |-> f.exc, db |-> f.db]
        ELSE [tree |-> [i \in 1..Len(f.rows) |-> values(f.rows[i])],
              exc |-> NoExc, db |-> f.db]

Op(op, outcome, args) == [op |-> op, outcome |-> outcome, args |-> args]

ViewerUnchanged == UNCHANGED <<vstatus, vcolumns, vtree, vargs, vret>>

\* main(): init_db(), then CustomerApp(root), whose constructor refreshes
\* the table.  An exception here ends the process.
main(ifault, rfault, gc) ==
    /\ pc = "stopped"
    /\ LET i == init_db(db, ifault)
           r == refresh_table(<<>>, i.db, rfault)
       IN  IF i.exc # NoExc
           THEN /\ db' = i.db
                /\ pc' = "stopped"
                /\ tree' = <<>>
                /\ escaped' = TRUE
                /\ openConns' = 0
                /\ last' = Op("main", "init_db raised", <<>>)
           ELSE IF r.exc # NoExc
           THEN /\ db' = r.db
                /\ pc' = "stopped"
                /\ tree' = <<>>
                /\ escaped' = TRUE
                /\ openConns' = 0
                /\ last' = Op("main", "refresh_table raised", <<>>)
           ELSE /\ db' = r.db
                /\ pc' = "running"
                /\ tree' = r.tree
                /\ escaped' = FALSE
                /\ left_open(openConns, 2, gc) <= MaxOpenConns
                /\ openConns' = left_open(openConns, 2, gc)
                /\ last' = Op("main", "ok", <<>>)
    /\ form' = FormDefault
    /\ dialog' = NoDialog
    /\ UNCHANGED clock
    /\ ViewerUnchanged

\* The window is closed: mainloop() returns and the process ends.
quit ==
    /\ pc = "running"
    /\ pc' = "stopped"
    /\ form' = FormDefault
    /\ tree' = <<>>
    /\ dialog' = NoDialog
    /\ escaped' = FALSE
    /\ openConns' = 0
    /\ last' = Op("quit", "ok", <<>>)
    /\ UNCHANGED <<db, clock>>
    /\ ViewerUnchanged

\* The user edits the entry widgets bound to the StringVars.
fill_form(f) ==
    /\ pc = "running"
    /\ form' = f
    /\ dialog' = NoDialog
    /\ escaped' = FALSE
    /\ last' = Op("fill_form", "ok", <<>>)
    /\ UNCHANGED <<db, clock, openConns, pc, tree>>
    /\ ViewerUnchanged

clear_form ==
    /\ pc = "running"
    /\ form' = FormDefault
    /\ dialog' = NoDialog
    /\ escaped' = FALSE
    /\ last' = Op("clear_form", "ok", <<>>)
    /\ UNCHANGED <<db, clock, openConns, pc, tree>>
    /\ ViewerUnchanged

\* submit with clear_form() called before validation.
submit_clear_first(wfault, rfault, now, gc) ==
    /\ pc = "running"
    /\ now >= clock
    /\ LET name == strip(form.name)
           birthday == strip(form.birthday)
           email == strip(form.email)
           phone == strip(form.phone)
           address == strip(form.address)
           preferred == strip(form.preferred_contact)
           v == validate_fields(name, birthday, email, phone, preferred)
           ins == insert_customer(db, name, or_none(birthday), or_none(email),
                                  or_none(phone), or_none(address), preferred,
                                  now, wfault)
           r == refresh_table(tree, ins.db, rfault)
       IN  /\ form' = FormDefault
           /\ IF ~v[1]
              THEN /\ dialog' = <<"showerror", "Validation", v[2]>>
                   /\ escaped' = FALSE
                   /\ openConns' = left_open(openConns, 0, gc)
                   /\ last' = Op("submit", "invalid", <<>>)
                   /\ UNCHANGED <<db, clock, tree>>
              ELSE IF ins.exc # NoExc
              THEN /\ dialog' = <<"showerror", "Error", ins.exc>>
                   /\ escaped' = FALSE
                   /\ db' = ins.db
                   /\ left_open(openConns, 1, gc) <= MaxOpenConns
                   /\ openConns' = left_open(openConns, 1, gc)
                   /\ last' = Op("submit", "insert_customer raised", <<>>)
                   /\ UNCHANGED <<clock, tree>>
              ELSE /\ Cardinality(db.rows) < MaxRows
                   /\ db' = r.db
                   /\ clock' = now
                   /\ tree' = r.tree
                   /\ left_open(openConns, 2, gc) <= MaxOpenConns
                   /\ openConns' = left_open(openConns, 2, gc)
                   /\ IF r.exc # NoExc
                      THEN /\ dialog' = NoDialog
                           /\ escaped' = TRUE
                           /\ last' = Op("submit", "refresh_table raised", <<>>)
                      ELSE /\ dialog' = <<"showinfo", "Success", "Your information was submitted.">>
                           /\ escaped' = FALSE
                           /\ last' = Op("submit", "ok", <<>>)
    /\ UNCHANGED pc
    /\ ViewerUnchanged

\* The Submit button.
submit(wfault, rfault, now, gc) ==
    /\ pc = "running"
    /\ now >= clock
    /\ LET name == strip(form.name)
           birthday == strip(form.birthday)
           email == strip(form.email)
           phone == strip(form.phone)
           address == strip(form.address)
           preferred == strip(form.preferred_contact)
           v == validate_fields(name, birthday, email, phone, preferred)
           ins == insert_customer(db, name, or_none(birthday), or_none(email),
                                  or_none(phone), or_none(address), preferred,
                                  now, wfault)
           r == refresh_table(tree, ins.db, rfault)
       IN  IF ~v[1]
           THEN /\ dialog' = <<"showerror", "Validation", v[2]>>
                /\ escaped' = FALSE
                /\ openConns' = left_open(openConns, 0, gc)
                /\ last' = Op("submit", "invalid", <<>>)
                /\ UNCHANGED <<db, clock, form, tree>>
           ELSE IF ins.exc # NoExc
           THEN /\ dialog' = <<"showerror", "Error", ins.exc>>
                /\ escaped' = FALSE
                /\ db' = ins.db
                /\ left_open(openConns, 1, gc) <= MaxOpenConns
                /\ openConns' = left_open(openConns, 1, gc)
                /\ last' = Op("submit", "insert_customer raised", <<>>)
                /\ UNCHANGED <<clock, form, tree>>
           ELSE /\ Cardinality(db.rows) < MaxRows
                /\ db' = r.db
                /\ clock' = now
                /\ tree' = r.tree
                /\ left_open(openConns, 2, gc) <= MaxOpenConns
                /\ openConns' = left_open(openConns, 2, gc)
                /\ IF r.exc # NoExc
                   THEN /\ dialog' = NoDialog
                        /\ escaped' = TRUE
                        /\ last' = Op("submit", "refresh_table raised", <<>>)
                        /\ UNCHANGED form
                   ELSE /\ dialog' = <<"showinfo", "Success", "Your information was submitted.">>
                        /\ escaped' = FALSE
                        /\ form' = FormDefault
                        /\ last' = Op("submit", "ok", <<>>)
    /\ UNCHANGED pc
    /\ ViewerUnchanged

Init ==
    /\ db = EmptyDb
    /\ clock = 0
    /\ openConns = 0
    /\ pc = "stopped"
    /\ form = FormDefault
    /\ tree = <<>>
    /\ dialog = NoDialog
    /\ escaped = FALSE
    /\ last = Op("none", "ok", <<>>)
    /\ vstatus = StatusReady
    /\ vcolumns = <<>>
    /\ vtree = <<>>
    /\ vargs = <<>>
    /\ vret = <<>>

Next ==
    \/ \E ifault, rfault, gc \in BOOLEAN : main(ifault, rfault, gc)
    \/ quit
    \/ \E f \in Forms : fill_form(f)
    \/ clear_form
    \/ \E wfault, rfault, gc \in BOOLEAN : \E now \in 0..MaxClock :
           submit(wfault, rfault, now, gc)

Spec == Init /\ [][Next]_vars

----------------------------------------------------------------------------
(* Claims about the entry form, checked under Spec *)

SubmitEnded(outcomes) == last'.op = "submit" /\ last'.outcome \in outcomes

Newest(d) == Head(fetch_customers(d, FALSE).rows)

\* C1, as stated: after a successful submit, fetch_customers() returns first
\* a row whose six fields equal the trimmed form values and whose id is one
\* more than the largest id present before.
C1_StoredEqualsTrimmed ==
    [][SubmitEnded({"ok"}) =>
          /\ fetch_customers(db', FALSE).rows # <<>>
          /\ Newest(db').name = strip(form.name)
          /\ Newest(db').birthday = strip(form.birthday)
          /\ Newest(db').email = strip(form.email)
          /\ Newest(db').phone = strip(form.phone)
          /\ Newest(db').address = strip(form.address)
          /\ Newest(db').preferred_contact = strip(form.preferred_contact)
          /\ Newest(db').id = MaxId(db.rows) + 1]_vars

Stored(s) == IF strip(s) = <<>> THEN NULL ELSE strip(s)

\* C1, amended: after a successful submit, fetch_customers() returns first a
\* row whose name and preferred_contact equal the trimmed form values, whose
\* birthday, email, phone and address equal the trimmed form values or are
\* null where the trimmed value is empty, and whose id is one more than the
\* largest id present before.
C1_StoredRow ==
    [][SubmitEnded({"ok"}) =>
          /\ fetch_customers(db', FALSE).rows # <<>>
          /\ Newest(db').name = strip(form.name)
          /\ Newest(db').birthday = Stored(form.birthday)
          /\ Newest(db').email = Stored(form.email)
          /\ Newest(db').phone = Stored(form.phone)
          /\ Newest(db').address = Stored(form.address)
          /\ Newest(db').preferred_contact = strip(form.preferred_contact)
          /\ Newest(db').id = MaxId(db.rows) + 1]_vars

\* A second successful submit, of a form with optional fields left blank.
C1_Witness ==
    /\ last = Op("submit", "ok", <<>>)
    /\ Cardinality(db.rows) = 2
    /\ Newest(db).id = 2
    /\ Newest(db).birthday = NULL
    /\ \E r \in db.rows : r.name = sAnn /\ r.address = aWay

\* C2: a submit that ends in a validation error or in a failed insert adds no
\* row and leaves all six form fields as they were.
C2_FailedSubmitChangesNothing ==
    [][SubmitEnded({"invalid", "insert_customer raised"}) =>
          /\ db'.rows = db.rows
          /\ form' = form]_vars

\* A failed insert of a filled-in form, with a row already stored.
C2_Witness ==
    /\ last = Op("submit", "insert_customer raised", <<>>)
    /\ dialog # NoDialog
    /\ form.name = sAnnPadded
    /\ db.rows # {}

\* C3: a submit that inserts a row inserts exactly one and ends with the form
\* at its defaults; a submit that inserts none does not clear the form.
C3_ClearedIffInserted ==
    [][last'.op = "submit" =>
          IF db'.rows # db.rows
          THEN /\ Cardinality(db'.rows) = Cardinality(db.rows) + 1
               /\ form' = FormDefault
          ELSE form' = form]_vars

\* C5: every stored row has a non-empty name and a preferred_contact among
\* Email, Phone, Mail; ids are pairwise distinct; a row inserted later has a
\* larger id than every row inserted before it.
C5_RowInvariants ==
    [][/\ \A r \in db'.rows :
            /\ r.name \notin {NULL, <<>>}
            /\ r.preferred_contact \in Contacts
            /\ \A q \in db'.rows : q.id = r.id => q = r
       /\ \A r \in db'.rows \ db.rows : \A q \in db.rows : r.id > q.id]_vars

\* The table is full, filled over two runs of the program.
C5_Witness ==
    /\ Cardinality(db.rows) = MaxRows
    /\ last = Op("main", "ok", <<>>)
    /\ \E r \in db.rows : r.preferred_contact = Mail

\* C8: no connection is open once an operation has ended.
C8_NoOpenConnection == openConns = 0

\* C9: no exception leaves the submit handler; a store failure in it is
\* shown to the user.
C9_NothingEscapesSubmit ==
    last.op = "submit" =>
        /\ ~escaped
        /\ (last.outcome # "ok" => dialog # NoDialog)

\* C10: after a successful submit, and after the refresh of a successful
\* start, the grid shows exactly the rows fetch_customers() returns, in that
\* order, each as (id, name, birthday, email, phone, address,
\* preferred_contact, created_at), ids strictly descending; after a submit
\* the first displayed row is the one just submitted.
C10_GridShowsFetchedRows ==
    [][(last'.op \in {"submit", "main"} /\ last'.outcome = "ok") =>
          LET f == fetch_customers(db', FALSE).rows
          IN  /\ Len(tree') = Len(f)
              /\ \A i \in 1..Len(f) :
                    tree'[i] = <<f[i].id, f[i].name, f[i].birthday, f[i].email,
                                 f[i].phone, f[i].address,
                                 f[i].preferred_contact, f[i].created_at>>
              /\ \A i, j \in 1..Len(tree') : i < j => tree'[i][1] > tree'[j][1]
              /\ last'.op = "submit" =>
                    /\ tree'[1][1] = MaxId(db.rows) + 1
                    /\ tree'[1][2] = strip(form.name)]_vars

\* Two rows displayed right after the second submit.
C10_Witness ==
    /\ last = Op("submit", "ok", <<>>)
    /\ Len(tree) = 2
    /\ tree[1][1] = 2
    /\ tree[2][1] = 1

----------------------------------------------------------------------------
(* The standalone viewer: DBViewerApp *)

\* What the database is to a reader at the moment it is read.
Condition(d, fault) ==
    IF d.file = "absent" THEN "absent"
    ELSE IF fault THEN "store error"
    ELSE IF ~d.table THEN "no table"
    ELSE "table"

\* SELECT * FROM customers: tuples in rowid order
select_all(d) == [i \in 1..Cardinality(d.rows) |-> values(OrderByIdAsc(d.rows)[i])]

\* Returns (column_names, rows), or (None, None) with the status label set;
\* sqlite3.Error and every other exception are caught here.
_get_db_data(d, fault) ==
    IF d.file = "absent"
    THEN [column_names |-> NULL, rows |-> NULL, status |-> StatusNotFound,
          dialog |-> NoDialog, exc |-> NoExc, calls |-> 0]
    ELSE IF fault
    THEN [column_names |-> NULL, rows |-> NULL, status |-> StatusSqliteError,
          dialog |-> <<"showerror", "Database Error", "OperationalError">>,
          exc |-> NoExc, calls |-> 1]
    ELSE IF ~d.table
    THEN [column_names |-> NULL, rows |-> NULL, status |-> StatusNoTables,
          dialog |-> NoDialog, exc |-> NoExc, calls |-> 1]
    ELSE [column_names |-> columns, rows |-> select_all(d), status |-> StatusLoaded,
          dialog |-> NoDialog, exc |-> NoExc, calls |-> 1]

FormUnchanged == UNCHANGED <<pc, form, tree, vargs, vret>>

\* load_data without the clearing of the grid and its columns.
load_data_keep(fault, gc) ==
    LET g == _get_db_data(db, fault)
        shown == g.column_names \notin {NULL, <<>>} /\ g.rows # NULL
    IN  /\ vcolumns' = IF shown THEN g.column_names ELSE vcolumns
        /\ vtree' = IF shown THEN g.rows ELSE vtree
        /\ vstatus' = g.status
        /\ dialog' = g.dialog
        /\ escaped' = (g.exc # NoExc)
        /\ left_open(openConns, g.calls, gc) <= MaxOpenConns
        /\ openConns' = left_open(openConns, g.calls, gc)
        /\ last' = Op("load_data", Condition(db, fault), <<>>)
        /\ UNCHANGED <<db, clock>>
        /\ FormUnchanged

\* The Refresh button, and the initial load of the constructor: empties the
\* grid and its columns, then shows what _get_db_data returned, if anything.
load_data(fault, gc) ==
    LET g == _get_db_data(db, fault)
        shown == g.exc = NoExc /\ g.column_names \notin {NULL, <<>>} /\ g.rows # NULL
    IN  /\ vcolumns' = IF shown THEN g.column_names ELSE <<>>
        /\ vtree' = IF shown THEN g.rows ELSE <<>>
        /\ vstatus' = IF g.exc = NoExc THEN g.status ELSE vstatus
        /\ dialog' = g.dialog
        /\ escaped' = (g.exc # NoExc)
        /\ left_open(openConns, g.calls, gc) <= MaxOpenConns
        /\ openConns' = left_open(openConns, g.calls, gc)
        /\ last' = Op("load_data", Condition(db, fault), <<>>)
        /\ UNCHANGED <<db, clock>>
        /\ FormUnchanged

----------------------------------------------------------------------------
(* The database helpers called directly *)

ViewUnchanged == UNCHANGED <<vstatus, vcolumns, vtree>>

call_init_db(fault, gc) ==
    LET i == init_db(db, fault)
    IN  /\ db' = i.db
        /\ left_open(openConns, 1, gc) <= MaxOpenConns
        /\ openConns' = left_open(openConns, 1, gc)
        /\ dialog' = NoDialog
        /\ escaped' = (i.exc # NoExc)
        /\ last' = Op("init_db", i.exc, <<>>)
        /\ UNCHANGED clock
        /\ ViewUnchanged
        /\ FormUnchanged

call_insert_customer(name, preferred_contact, now, fault, gc) ==
    LET ins == insert_customer(db, name, NULL, NULL, NULL, NULL,
                               preferred_contact, now, fault)
    IN  /\ now >= clock
        /\ ins.exc = NoExc => Cardinality(db.rows) < MaxDirectRows
        /\ db' = ins.db
        /\ clock' = IF ins.exc = NoExc THEN now ELSE clock
        /\ left_open(openConns, 1, gc) <= MaxOpenConns
        /\ openConns' = left_open(openConns, 1, gc)
        /\ dialog' = NoDialog
        /\ escaped' = (ins.exc # NoExc)
        /\ last' = Op("insert_customer", ins.exc,
                      <<name, NULL, NULL, NULL, NULL, preferred_contact>>)
        /\ ViewUnchanged
        /\ FormUnchanged

\* customers.db is deleted or moved away while no program has it open.
remove_file ==
    /\ db.file = "present"
    /\ openConns = 0
    /\ db' = EmptyDb
    /\ dialog' = NoDialog
    /\ escaped' = FALSE
    /\ last' = Op("remove_file", "ok", <<>>)
    /\ UNCHANGED <<clock, openConns>>
    /\ ViewUnchanged
    /\ FormUnchanged

DirectNames == {NULL, sAnn}

DirectContacts == {NULL, Mail, Fax}

NextStore ==
    \/ \E fault, gc \in BOOLEAN : call_init_db(fault, gc)
    \/ \E n \in DirectNames, c \in DirectContacts :
           \E now \in 0..MaxClock : \E fault, gc \in BOOLEAN :
               call_insert_customer(n, c, now, fault, gc)
    \/ remove_file
    \/ \E fault, gc \in BOOLEAN : load_data(fault, gc)

SpecStore == Init /\ [][NextStore]_vars

\* C6: insert_customer called with a preferred_contact outside Email, Phone,
\* Mail (null included) raises and leaves the table as it was.
C6_StoreRejectsOtherContacts ==
    [][(last'.op = "insert_customer" /\ last'.args[6] \notin Contacts) =>
          /\ last'.outcome # NoExc
          /\ db'.rows = db.rows]_vars

----------------------------------------------------------------------------
(* validate_fields on its own *)

ArgNames == {<<>>, sBlank, sAnn, sAnnPadded}

ArgBirthdays == {<<>>, sBlank, dGood, dPadded, dSlash, dShort, dNewline}

ArgEmails == {<<>>, eGood, ePadded, eNoDot, eSpace, eTwoAt, eDotFirst}

ArgPhones == {<<>>, pGood, pPadded, pShort, pAlpha}

ArgContacts == {Email, Phone, Mail, Fax, MailPadded, emailLower, <<>>}

InitValidate ==
    /\ db = EmptyDb
    /\ clock = 0
    /\ openConns = 0
    /\ pc = "stopped"
    /\ form = FormDefault
    /\ tree = <<>>
    /\ dialog = NoDialog
    /\ escaped = FALSE
    /\ last = Op("none", "ok", <<>>)
    /\ vstatus = StatusReady
    /\ vcolumns = <<>>
    /\ vtree = <<>>
    /\ vargs \in ArgNames \X ArgBirthdays \X ArgEmails \X ArgPhones \X ArgContacts
    /\ vret = <<>>

call_validate_fields ==
    /\ vret = <<>>
    /\ vret' = validate_fields(vargs[1], vargs[2], vargs[3], vargs[4], vargs[5])
    /\ UNCHANGED <<db, clock, openConns, pc, form, tree, dialog, escaped, last,
                   vstatus, vcolumns, vtree, vargs>>

NextValidate == call_validate_fields

SpecValidate == InitValidate /\ [][NextValidate]_vars

\* The five rules of validate_fields, in the order the claim gives them:
\* whether the rule rejects these arguments, and the message it gives.
RuleFails(a) ==
    << strip(a[1]) = <<>>,
       a[2] # <<>> /\ ~DATE_RE(strip(a[2])),
       a[3] # <<>> /\ ~EMAIL_RE(strip(a[3])),
       a[4] # <<>> /\ ~PHONE_RE(strip(a[4])),
       a[5] \notin Contacts >>

RuleMsg == <<MsgName, MsgBirthday, MsgEmail, MsgPhone, MsgContact>>

\* C4: validate_fields returns the message of the first failing rule in the
\* order name, birthday, email, phone, preferred_contact; a blank name gives
\* (False, "Name is required.") whatever the rest; it returns True exactly
\* when no rule fails.
C4_FirstFailureWins ==
    vret # <<>> =>
        LET failing == {i \in 1..5 : RuleFails(vargs)[i]}
        IN  /\ vret[1] = (failing = {})
            /\ \A i \in failing :
                   (\A j \in failing : i <= j) => vret = <<FALSE, RuleMsg[i]>>
            /\ (\A k \in 1..Len(vargs[1]) : vargs[1][k] \in Whitespace) =>
                   vret = <<FALSE, MsgName>>

\* A blank name together with a bad date, a bad email and a bad contact.
C4_Witness ==
    /\ vret = <<FALSE, MsgName>>
    /\ vargs = <<sBlank, dSlash, eNoDot, <<>>, Fax>>

====
